---- MODULE Spec2Model ----
(***************************************************************************)
(* Model of ninevra/tic-tac-toe: the board engine (src/src/state.rs), the  *)
(* console input reader (src/src/input.rs) and the game loop               *)
(* (src/src/main.rs).                                                      *)
(*                                                                         *)
(* The specifications share the variables:                                 *)
(*   Spec      any sequence of BoardState calls starting from new()        *)
(*   SpecAny   the pure queries applied to an arbitrary 9-tile board       *)
(*   SpecMain  the game loop of main(), one step per line read from stdin  *)
(*   SpecMainFair  the same with players who eventually enter a legal move *)
(***************************************************************************)
EXTENDS Integers, Sequences, FiniteSets, TLC

VARIABLES
    tiles,   \* BoardState.tiles: Vec<TileState>, as a function on 0..len-1
    next,    \* BoardState.next: Player
    plays,   \* number of play() calls that returned Ok
    call,    \* the last call made on the board and what it returned
    pc,      \* position of the process: "run", "read", "done" or "panic"
    out      \* what main() printed during its last step

vars == <<tiles, next, plays, call, pc, out>>

(***************************************************************************)
(* Bounds                                                                  *)
(***************************************************************************)
\* largest coordinate a caller passes to play()
MaxCoord == 4
\* longest line (without its newline) typed at the prompt
MaxLineLen == 3

(***************************************************************************)
(* state.rs: TileState, Player and their conversions                       *)
(***************************************************************************)
TileState == {"X", "O", "Empty"}

Player == {"X", "O"}

\* Option::None
None == "None"

TileFromPlayer_x(player) == "X"

\* impl From<Player> for TileState
TileFromPlayer(player) ==
    CASE player = "X" -> "X"
      [] player = "O" -> "O"

\* impl From<TileState> for Option<Player>
PlayerFromTile(tile) ==
    CASE tile = "X" -> "X"
      [] tile = "O" -> "O"
      [] tile = "Empty" -> None

opponent_same(self) == self

opponent_always_o(self) == "O"

\* Player::opponent
opponent(self) ==
    CASE self = "X" -> "O"
      [] self = "O" -> "X"

\* impl Display for TileState
TileDisplay(tile) ==
    CASE tile = "X" -> "X"
      [] tile = "O" -> "O"
      [] tile = "Empty" -> " "

\* impl Display for Player
PlayerDisplay(player) ==
    CASE player = "X" -> "X"
      [] player = "O" -> "O"

BOARD_SIZE == 3

(***************************************************************************)
(* state.rs: BoardState                                                    *)
(***************************************************************************)
new_tiles_one_row == [i \in 0..(BOARD_SIZE - 1) |-> "Empty"]

\* vec![TileState::Empty; BOARD_SIZE * BOARD_SIZE]
new_tiles == [i \in 0..(BOARD_SIZE * BOARD_SIZE - 1) |-> "Empty"]

\* number of elements of the Vec
VecLen(t) == Cardinality(DOMAIN t)

\* the flat position computed by Index / IndexMut
FlatIndex(x, y) == x + y * BOARD_SIZE

\* Vec indexing panics when the position is not below the length
IndexPanics(t, x, y) == FlatIndex(x, y) >= VecLen(t)

\* impl Index<(usize, usize)> for BoardState (where it does not panic)
Index(t, x, y) == t[FlatIndex(x, y)]

IndexMut_column_major(t, x, y, v) == [t EXCEPT ![y + x * BOARD_SIZE] = v]

\* impl IndexMut<(usize, usize)> for BoardState, followed by the store
IndexMut(t, x, y, v) == [t EXCEPT ![FlatIndex(x, y)] = v]

play_overwrite(t, n, x, y) ==
    IF x > BOARD_SIZE \/ y > BOARD_SIZE
    THEN [ret |-> "OutOfBounds", tiles |-> t, next |-> n]
    ELSE IF IndexPanics(t, x, y)
    THEN [ret |-> "panic", tiles |-> t, next |-> n]
    ELSE IF Index(t, x, y) = "Empty"
    THEN [ret |-> "Ok",
          tiles |-> IndexMut(t, x, y, TileFromPlayer(n)),
          next |-> opponent(n)]
    ELSE [ret |-> "CellOccupied",
          tiles |-> IndexMut(t, x, y, TileFromPlayer(n)),
          next |-> n]

play_xonly(t, n, x, y) ==
    IF x > BOARD_SIZE
    THEN [ret |-> "OutOfBounds", tiles |-> t, next |-> n]
    ELSE IF IndexPanics(t, x, y)
    THEN [ret |-> "panic", tiles |-> t, next |-> n]
    ELSE IF Index(t, x, y) = "Empty"
    THEN [ret |-> "Ok",
          tiles |-> IndexMut(t, x, y, TileFromPlayer(n)),
          next |-> opponent(n)]
    ELSE [ret |-> "CellOccupied", tiles |-> t, next |-> n]

\* BoardState::play: the value returned ("Ok", or the error: "OutOfBounds" is
\* "(x, y) is out of bounds", "CellOccupied" is "(x, y) has already been
\* played", "panic" is the index-out-of-range panic of the Vec) and the board
\* left behind
play(t, n, x, y) ==
    IF x > BOARD_SIZE \/ y > BOARD_SIZE
    THEN [ret |-> "OutOfBounds", tiles |-> t, next |-> n]
    ELSE IF IndexPanics(t, x, y)
    THEN [ret |-> "panic", tiles |-> t, next |-> n]
    ELSE IF Index(t, x, y) = "Empty"
    THEN [ret |-> "Ok",
          tiles |-> IndexMut(t, x, y, TileFromPlayer(n)),
          next |-> opponent(n)]
    ELSE [ret |-> "CellOccupied", tiles |-> t, next |-> n]

\* BoardState::iter_row, collected
iter_row(t, row) == [x \in 0..(BOARD_SIZE - 1) |-> Index(t, x, row)]

\* BoardState::iter_col, collected
iter_col(t, col) == [y \in 0..(BOARD_SIZE - 1) |-> Index(t, col, y)]

iter_diag_dexter(t, sinister) ==
    [i \in 0..(BOARD_SIZE - 1) |-> Index(t, i, i)]

\* BoardState::iter_diag, collected
iter_diag(t, sinister) ==
    [i \in 0..(BOARD_SIZE - 1) |->
        Index(t, IF sinister THEN BOARD_SIZE - 1 - i ELSE i, i)]

all_eq_first_two(items) ==
    IF DOMAIN items = {} THEN None
    ELSE IF \A i \in (DOMAIN items) \ {0, BOARD_SIZE - 1} : items[i] = items[0]
         THEN items[0]
         ELSE None

\* all_eq: the first item when there is one and all the others equal it
all_eq(items) ==
    IF DOMAIN items = {} THEN None
    ELSE IF \A i \in (DOMAIN items) \ {0} : items[i] = items[0]
         THEN items[0]
         ELSE None

\* the chained iterator of won(): rows, then columns, then the two diagonals,
\* each mapped through all_eq
won_lines(t) ==
    [r \in 1..BOARD_SIZE |-> all_eq(iter_row(t, r - 1))]
    \o [c \in 1..BOARD_SIZE |-> all_eq(iter_col(t, c - 1))]
    \o <<all_eq(iter_diag(t, FALSE)), all_eq(iter_diag(t, TRUE))>>

\* opt_tile.and_then(|tile| tile.into())
AndThenInto(opt_tile) ==
    IF opt_tile = None THEN None ELSE PlayerFromTile(opt_tile)

find_map_first_some(opts, i) ==
    IF \A j \in i..Len(opts) : opts[j] = None THEN None
    ELSE AndThenInto(opts[CHOOSE j \in i..Len(opts) :
                            opts[j] # None /\ \A h \in i..(j - 1) : opts[h] = None])

RECURSIVE find_map(_, _)
\* Iterator::find_map from position i on: the first result that is not None
find_map(opts, i) ==
    IF i > Len(opts) THEN None
    ELSE IF AndThenInto(opts[i]) # None THEN AndThenInto(opts[i])
    ELSE find_map(opts, i + 1)

\* BoardState::won
won(t) == find_map(won_lines(t), 1)

drawn_unless_won(t) == (\A i \in DOMAIN t : t[i] # "Empty") /\ won(t) = None

\* BoardState::drawn
drawn(t) == \A i \in DOMAIN t : t[i] # "Empty"

(***************************************************************************)
(* state.rs: impl Display for BoardState                                   *)
(***************************************************************************)
RECURSIVE fmt_tiles(_, _, _)
\* the inner loop over x that writes the tiles of row y
fmt_tiles(t, y, x) ==
    IF x >= BOARD_SIZE THEN ""
    ELSE TileDisplay(Index(t, x, y))
         \o (IF x # BOARD_SIZE - 1 THEN "|" ELSE "")
         \o fmt_tiles(t, y, x + 1)

RECURSIVE fmt_rule(_)
\* the inner loop over x that writes the separator line
fmt_rule(x) ==
    IF x >= BOARD_SIZE THEN ""
    ELSE "-" \o (IF x # BOARD_SIZE - 1 THEN "+" ELSE "") \o fmt_rule(x + 1)

RECURSIVE fmt_rows_trailing(_, _)
fmt_rows_trailing(t, y) ==
    IF y >= BOARD_SIZE THEN ""
    ELSE fmt_tiles(t, y, 0) \o "\n" \o fmt_rule(0) \o "\n"
         \o fmt_rows_trailing(t, y + 1)

RECURSIVE fmt_rows(_, _)
\* the outer loop over y
fmt_rows(t, y) ==
    IF y >= BOARD_SIZE THEN ""
    ELSE fmt_tiles(t, y, 0)
         \o (IF y # BOARD_SIZE - 1 THEN "\n" \o fmt_rule(0) \o "\n" ELSE "")
         \o fmt_rows(t, y + 1)

\* impl Display for BoardState
fmt(t) == fmt_rows(t, 0)

(***************************************************************************)
(* Calls on the board                                                      *)
(***************************************************************************)
NoCall == [op |-> "new"]

Coords == 0..MaxCoord

\* state.play((x, y)) by any caller
Play(x, y) ==
    /\ pc = "run"
    /\ LET r == play(tiles, next, x, y) IN
        /\ tiles' = r.tiles
        /\ next' = r.next
        /\ plays' = IF r.ret = "Ok" THEN plays + 1 ELSE plays
        /\ call' = [op |-> "play", x |-> x, y |-> y, ret |-> r.ret]
        /\ pc' = IF r.ret = "panic" THEN "panic" ELSE "run"
    /\ UNCHANGED out

NextPlayer_advances ==
    /\ pc = "run"
    /\ call' = [op |-> "next", ret |-> next]
    /\ next' = opponent(next)
    /\ UNCHANGED <<tiles, plays, pc, out>>

\* state.next()
NextPlayer ==
    /\ pc = "run"
    /\ call' = [op |-> "next", ret |-> next]
    /\ UNCHANGED <<tiles, next, plays, pc, out>>

\* state.won()
Won ==
    /\ pc = "run"
    /\ call' = [op |-> "won", ret |-> won(tiles)]
    /\ UNCHANGED <<tiles, next, plays, pc, out>>

\* state.drawn()
Drawn ==
    /\ pc = "run"
    /\ call' = [op |-> "drawn", ret |-> drawn(tiles)]
    /\ UNCHANGED <<tiles, next, plays, pc, out>>

\* state.iter_row(row).collect()
IterRow(row) ==
    /\ pc = "run"
    /\ call' = [op |-> "iter_row", arg |-> row, ret |-> iter_row(tiles, row)]
    /\ UNCHANGED <<tiles, next, plays, pc, out>>

\* state.iter_col(col).collect()
IterCol(col) ==
    /\ pc = "run"
    /\ call' = [op |-> "iter_col", arg |-> col, ret |-> iter_col(tiles, col)]
    /\ UNCHANGED <<tiles, next, plays, pc, out>>

\* state.iter_diag(sinister).collect()
IterDiag(sinister) ==
    /\ pc = "run"
    /\ call' = [op |-> "iter_diag", arg |-> sinister,
                ret |-> iter_diag(tiles, sinister)]
    /\ UNCHANGED <<tiles, next, plays, pc, out>>

\* format!("{}", state)
Display ==
    /\ pc = "run"
    /\ call' = [op |-> "fmt", ret |-> fmt(tiles)]
    /\ UNCHANGED <<tiles, next, plays, pc, out>>

\* player.opponent() and player.opponent().opponent()
Opponent(player) ==
    /\ pc = "run"
    /\ call' = [op |-> "opponent", arg |-> player,
                ret |-> opponent(player),
                twice |-> opponent(opponent(player))]
    /\ UNCHANGED <<tiles, next, plays, pc, out>>

\* BoardState::new()
Init ==
    /\ tiles = new_tiles
    /\ next = "X"
    /\ plays = 0
    /\ call = NoCall
    /\ pc = "run"
    /\ out = <<>>

Next ==
    \/ \E x \in Coords, y \in Coords : Play(x, y)
    \/ NextPlayer
    \/ Won
    \/ Drawn
    \/ \E row \in 0..(BOARD_SIZE - 1) : IterRow(row)
    \/ \E col \in 0..(BOARD_SIZE - 1) : IterCol(col)
    \/ \E sinister \in BOOLEAN : IterDiag(sinister)
    \/ Display

Spec == Init /\ [][Next]_vars

(***************************************************************************)
(* The pure queries on an arbitrary board, as the tests construct them     *)
(***************************************************************************)
InitAny ==
    /\ tiles \in [0..(BOARD_SIZE * BOARD_SIZE - 1) -> TileState]
    /\ next \in Player
    /\ plays = 0
    /\ call = NoCall
    /\ pc = "run"
    /\ out = <<>>

NextAny ==
    \/ NextPlayer
    \/ Won
    \/ Drawn
    \/ Display
    \/ \E player \in Player : Opponent(player)

SpecAny == InitAny /\ [][NextAny]_vars

(***************************************************************************)
(* input.rs: the console input reader                                      *)
(***************************************************************************)
\* the characters typed at the prompt
Chars == {"0", "1", "2", "3", "4", ",", " ", "+"}

\* the lines typed at the prompt, as sequences of characters
Lines == UNION {[1..n -> Chars] : n \in 0..MaxLineLen}

\* prompt: io::stdin().read_line() returns the line with its newline
read_line(line) == line \o <<"\n">>

RECURSIVE split(_)
\* str::split(","): the pieces between the commas, empty pieces included
split(s) ==
    IF s = <<>> THEN << <<>> >>
    ELSE LET rest == split(Tail(s)) IN
         IF Head(s) = ","
         THEN << <<>> >> \o rest
         ELSE << <<Head(s)>> \o Head(rest) >> \o Tail(rest)

Whitespace == {" ", "\n"}

RECURSIVE trim_start(_)
trim_start(s) ==
    IF s # <<>> /\ Head(s) \in Whitespace THEN trim_start(Tail(s)) ELSE s

RECURSIVE trim_end(_)
trim_end(s) ==
    IF s # <<>> /\ s[Len(s)] \in Whitespace
    THEN trim_end(SubSeq(s, 1, Len(s) - 1))
    ELSE s

\* str::trim
trim(s) == trim_end(trim_start(s))

DigitChars == {"0", "1", "2", "3", "4", "5", "6", "7", "8", "9"}

DigitValue(c) ==
    CASE c = "0" -> 0 [] c = "1" -> 1 [] c = "2" -> 2 [] c = "3" -> 3
      [] c = "4" -> 4 [] c = "5" -> 5 [] c = "6" -> 6 [] c = "7" -> 7
      [] c = "8" -> 8 [] c = "9" -> 9

RECURSIVE DecimalValue(_)
DecimalValue(digits) ==
    IF digits = <<>> THEN 0
    ELSE DecimalValue(SubSeq(digits, 1, Len(digits) - 1)) * 10
         + DigitValue(digits[Len(digits)])

\* str::parse::<usize>: an optional "+" and then one or more decimal digits
\* (a line of at most MaxLineLen characters never overflows usize)
parse_usize(s) ==
    IF s = <<>>
    THEN [ok |-> FALSE, val |-> 0, err |-> "cannot parse integer from empty string"]
    ELSE LET digits == IF Head(s) = "+" THEN Tail(s) ELSE s IN
         IF digits = <<>> \/ \E i \in 1..Len(digits) : digits[i] \notin DigitChars
         THEN [ok |-> FALSE, val |-> 0, err |-> "invalid digit found in string"]
         ELSE [ok |-> TRUE, val |-> DecimalValue(digits), err |-> ""]

RECURSIVE collect(_)
\* collect() into a Result: the first Err, or the values of all the items
collect(results) ==
    IF results = <<>> THEN [ok |-> TRUE, val |-> <<>>, err |-> ""]
    ELSE IF ~Head(results).ok THEN [ok |-> FALSE, val |-> <<>>, err |-> Head(results).err]
    ELSE LET rest == collect(Tail(results)) IN
         IF rest.ok
         THEN [ok |-> TRUE, val |-> <<Head(results).val>> \o rest.val, err |-> ""]
         ELSE rest

\* parse_list::<usize>
parse_list(input) ==
    LET items == split(input) IN
    collect([i \in 1..Len(items) |-> parse_usize(trim(items[i]))])

\* input_coords, on the line the player typed
input_coords(line) ==
    LET numbers == parse_list(read_line(line)) IN
    IF ~numbers.ok THEN [ok |-> FALSE, x |-> 0, y |-> 0, err |-> numbers.err]
    ELSE IF Len(numbers.val) = 2
    THEN [ok |-> TRUE, x |-> numbers.val[1], y |-> numbers.val[2], err |-> ""]
    ELSE [ok |-> FALSE, x |-> 0, y |-> 0,
          err |-> "expected exactly 2 input numbers, got " \o ToString(Len(numbers.val))]

\* everything input_coords can return on a line of Lines
Inputs == {input_coords(line) : line \in Lines}

(***************************************************************************)
(* main.rs: the game loop                                                  *)
(***************************************************************************)
\* println!("\n{}\n", state)
print_board(t) == "\n" \o fmt(t) \o "\n"

\* the prompt input_coords prints before it reads: "{} > "
prompt_text(n) == PlayerDisplay(n) \o " > "

\* the text of the error play() returned; the coordinates it names are
\* written x, y
error_text(ret) ==
    CASE ret = "OutOfBounds" -> "(x, y) is out of bounds"
      [] ret = "CellOccupied" -> "(x, y) has already been played"

breaks_on_occupied(ret) == ret \in {"Ok", "CellOccupied"}

\* the inner loop is left on Ok(_) => break only
breaks(ret) == ret = "Ok"

outcome_draw_first(t) ==
    IF drawn(t)
    THEN [pc |-> "done", msgs |-> <<"Draw!">>]
    ELSE IF won(t) # None
    THEN [pc |-> "done", msgs |-> <<PlayerDisplay(won(t)) \o " wins!">>]
    ELSE [pc |-> "read", msgs |-> <<>>]

outcome_ignores_win(t) ==
    IF drawn(t)
    THEN [pc |-> "done", msgs |-> <<"Draw!">>]
    ELSE [pc |-> "read", msgs |-> <<>>]

\* the checks after the inner loop: won() first, then drawn(); what is
\* printed and whether the outer loop is left
outcome(t) ==
    IF won(t) # None
    THEN [pc |-> "done", msgs |-> <<PlayerDisplay(won(t)) \o " wins!">>]
    ELSE IF drawn(t)
    THEN [pc |-> "done", msgs |-> <<"Draw!">>]
    ELSE [pc |-> "read", msgs |-> <<>>]

\* the messages of a rejected move and the prompt that follows them
Rejection(text, n) == <<text, "Enter coordinates x, y", prompt_text(n)>>

\* One pass of the inner loop from the line read to the next read_line (or to
\* the end of the process): input_coords, play, and after an accepted move
\* the rendering and the won() / drawn() checks of the outer loop.
Turn(input) ==
    /\ pc = "read"
    /\ IF ~input.ok
       THEN /\ call' = [op |-> "input_coords", ret |-> "ParseError"]
            /\ out' = Rejection(input.err, next)
            /\ UNCHANGED <<tiles, next, plays, pc>>
       ELSE LET r == play(tiles, next, input.x, input.y) IN
            /\ call' = [op |-> "turn", ret |-> r.ret]
            /\ IF r.ret = "panic"
               THEN /\ pc' = "panic"
                    /\ out' = <<>>
                    /\ UNCHANGED <<tiles, next, plays>>
               ELSE IF ~breaks(r.ret)
               THEN /\ out' = Rejection(error_text(r.ret), r.next)
                    /\ tiles' = r.tiles
                    /\ next' = r.next
                    /\ UNCHANGED <<plays, pc>>
               ELSE LET o == outcome(r.tiles) IN
                    /\ tiles' = r.tiles
                    /\ next' = r.next
                    /\ plays' = IF r.ret = "Ok" THEN plays + 1 ELSE plays
                    /\ pc' = o.pc
                    /\ out' = <<print_board(r.tiles)>> \o o.msgs
                              \o (IF o.pc = "read"
                                  THEN <<prompt_text(r.next)>> ELSE <<>>)

\* main() up to its first read_line: the empty board and the prompt for X
InitMain ==
    /\ tiles = new_tiles
    /\ next = "X"
    /\ plays = 0
    /\ call = NoCall
    /\ pc = "read"
    /\ out = <<print_board(new_tiles), prompt_text("X")>>

NextMain == \E input \in Inputs : Turn(input)

SpecMain == InitMain /\ [][NextMain]_vars

\* a pass of the inner loop in which the player enters a move that is accepted
AcceptedTurn == \E input \in Inputs : Turn(input) /\ plays' = plays + 1

\* the game loop with players who eventually enter an accepted move whenever
\* one exists
SpecMainFair == InitMain /\ [][NextMain]_vars /\ WF_vars(AcceptedTurn)

(***************************************************************************)
(* The grid as the specification describes it: column x, row y, row-major, *)
(* and its 8 lines in the order rows, columns, primary diagonal,           *)
(* anti-diagonal                                                           *)
(***************************************************************************)
GridCell(x, y) == y * 3 + x

Lines8 ==
    << <<0, 1, 2>>, <<3, 4, 5>>, <<6, 7, 8>>,
       <<0, 3, 6>>, <<1, 4, 7>>, <<2, 5, 8>>,
       <<0, 4, 8>>, <<2, 4, 6>> >>

LineOwnedBy(t, k, p) == \A j \in 1..3 : t[Lines8[k][j]] = p

LineWon(t, k) == \E p \in {"X", "O"} : LineOwnedBy(t, k, p)

OtherPlayer(p) == IF p = "X" THEN "O" ELSE "X"

InGrid(x, y) == x >= 0 /\ x < 3 /\ y >= 0 /\ y < 3

(***************************************************************************)
(* Claims about play()                                                     *)
(***************************************************************************)
\* C1: when play((x, y)) succeeds, next becomes the opponent of the previous
\* next and exactly one tile changes, from Empty to the mark of the player
\* who was next; the other eight tiles are unchanged.
C1_PlayFrame ==
    [][(call'.op = "play" /\ call'.ret = "Ok") =>
        /\ next' = OtherPlayer(next)
        /\ DOMAIN tiles' = DOMAIN tiles
        /\ \E i \in DOMAIN tiles :
            /\ tiles[i] = "Empty"
            /\ tiles'[i] = next
            /\ \A j \in (DOMAIN tiles) \ {i} : tiles'[j] = tiles[j]]_vars

C1_Witness == call.op = "play" /\ call.ret = "Ok" /\ plays >= 2

\* C2: play((x, y)) on a grid cell that is not Empty returns CellOccupied and
\* leaves all tiles and next unchanged.
C2_OccupiedRejected ==
    [][(/\ call'.op = "play"
        /\ InGrid(call'.x, call'.y)
        /\ tiles[GridCell(call'.x, call'.y)] # "Empty") =>
        /\ call'.ret = "CellOccupied"
        /\ tiles' = tiles
        /\ next' = next]_vars

C2_Witness ==
    /\ call.op = "play"
    /\ call.ret = "CellOccupied"
    /\ InGrid(call.x, call.y)
    /\ tiles[GridCell(call.x, call.y)] # "Empty"

\* C3: play((x, y)) with x > BOARD_SIZE or y > BOARD_SIZE returns OutOfBounds
\* and leaves all tiles and next unchanged.
C3_OutOfBoundsRejected ==
    [][(call'.op = "play" /\ (call'.x > 3 \/ call'.y > 3)) =>
        /\ call'.ret = "OutOfBounds"
        /\ tiles' = tiles
        /\ next' = next]_vars

C3_Witness ==
    /\ call.op = "play"
    /\ call.ret = "OutOfBounds"
    /\ call.x <= 3
    /\ call.y > 3
    /\ plays >= 1

\* C4: play() never crashes: every call either succeeds or returns
\* OutOfBounds or CellOccupied, also for x == BOARD_SIZE or y == BOARD_SIZE.
C4_PlayNeverPanics ==
    call.op = "play" => call.ret \in {"Ok", "OutOfBounds", "CellOccupied"}

\* C5: whenever play((x, y)) succeeds, 0 <= x < BOARD_SIZE and
\* 0 <= y < BOARD_SIZE, and the tile that changed is the one at column x of
\* row y.
C5_SuccessInsideGrid ==
    (call.op = "play" /\ call.ret = "Ok") =>
        /\ InGrid(call.x, call.y)
        /\ tiles[GridCell(call.x, call.y)] = OtherPlayer(next)
        /\ iter_row(tiles, call.y)[call.x] = OtherPlayer(next)
        /\ iter_col(tiles, call.x)[call.y] = OtherPlayer(next)

(***************************************************************************)
(* Claims about won() and drawn()                                          *)
(***************************************************************************)
\* C6: won() returns Some(p) iff at least one of the 8 lines has all three
\* tiles equal to a player's mark, and then p owns the first such line in the
\* order rows 0,1,2, columns 0,1,2, primary diagonal, anti-diagonal; it
\* returns None iff no line is won.
C6_WonFirstLine ==
    call.op = "won" =>
        /\ (call.ret = None) <=> (\A k \in 1..8 : ~LineWon(tiles, k))
        /\ (call.ret # None) =>
            /\ call.ret \in {"X", "O"}
            /\ \E k \in 1..8 :
                /\ LineOwnedBy(tiles, k, call.ret)
                /\ \A h \in 1..(k - 1) : ~LineWon(tiles, h)

C6_Witness ==
    /\ call.op = "won"
    /\ call.ret = "O"
    /\ \E k \in 1..8 : LineOwnedBy(tiles, k, "X")

TestBoard ==
    [i \in 0..8 |-> <<"X", "O", "X", "O", "X", "O", "X", "Empty", "Empty">>[i + 1]]

\* C7 as stated: on the board [X,O,X, O,X,O, X,Empty,Empty], won() returns
\* None.
C7_TestBoardNoWinner ==
    (call.op = "won" /\ tiles = TestBoard) => call.ret = None

\* C7 as amended: on the board [X,O,X, O,X,O, X,Empty,Empty], won() returns
\* Some(X), the anti-diagonal (2,0),(1,1),(0,2) being X,X,X.
C7_TestBoardXWins ==
    (call.op = "won" /\ tiles = TestBoard) =>
        /\ call.ret = "X"
        /\ LineOwnedBy(tiles, 8, "X")
        /\ \A k \in 1..7 : ~LineWon(tiles, k)

C7_Witness == call.op = "won" /\ tiles = TestBoard

\* C8: drawn() is true iff no tile is Empty, whatever won() returns; it is
\* true on a full board that contains a won line.
C8_DrawnIffFull ==
    call.op = "drawn" =>
        /\ call.ret <=> (\A i \in 0..8 : tiles[i] \in {"X", "O"})
        /\ ((\A i \in 0..8 : tiles[i] # "Empty") /\ (\E k \in 1..8 : LineWon(tiles, k)))
            => call.ret

C8_Witness ==
    /\ call.op = "drawn"
    /\ call.ret
    /\ \E k \in 1..8 : LineWon(tiles, k)

(***************************************************************************)
(* Claims about the game loop                                              *)
(***************************************************************************)
Last(seq) == seq[Len(seq)]

Printed(seq) == {seq[i] : i \in 1..Len(seq)}

Announcements == {"X wins!", "O wins!", "Draw!"}

Owners(t) == {p \in {"X", "O"} : \E k \in 1..8 : LineOwnedBy(t, k, p)}

Full(t) == \A i \in 0..8 : t[i] # "Empty"

\* C9: after every accepted move the loop announces "<Player> wins!" and
\* stops iff some line is won (by that player), announces "Draw!" and stops
\* iff the board is full and no line is won, and otherwise goes on with the
\* next prompt; a full board with a won line is a win, never a draw.
C9_WinCheckedBeforeDraw ==
    [][(pc = "read" /\ call'.op = "turn" /\ call'.ret = "Ok") =>
        /\ (Owners(tiles') # {}) <=>
              (pc' = "done" /\ \E p \in Owners(tiles') : Last(out') = p \o " wins!")
        /\ (Full(tiles') /\ Owners(tiles') = {}) <=>
              (pc' = "done" /\ Last(out') = "Draw!")
        /\ (~Full(tiles') /\ Owners(tiles') = {}) <=>
              (pc' = "read" /\ Last(out') = next' \o " > ")
        /\ Cardinality(Printed(out') \cap Announcements) <= 1
        /\ pc' \in {"read", "done"}]_vars

C9_Witness ==
    /\ pc = "done"
    /\ call.op = "turn"
    /\ Full(tiles)
    /\ Owners(tiles) = {"X"}
    /\ Last(out) = "X wins!"

Rejected(c) ==
    \/ c.op = "input_coords" /\ c.ret = "ParseError"
    \/ c.op = "turn" /\ c.ret \in {"OutOfBounds", "CellOccupied"}

\* C10: whenever a move is rejected (parse error, OutOfBounds, CellOccupied)
\* the tiles and next are unchanged, the loop goes on without a win or draw
\* check (nothing is rendered or announced) and the next prompt is for the
\* same player; the prompted player changes only after an accepted move.
C10_RejectedMoveRepromptsSamePlayer ==
    [][/\ (pc = "read" /\ Rejected(call')) =>
            /\ tiles' = tiles
            /\ next' = next
            /\ plays' = plays
            /\ pc' = "read"
            /\ Len(out') = 3
            /\ out'[2] = "Enter coordinates x, y"
            /\ out'[3] = Last(out)
            /\ out'[3] = next \o " > "
            /\ Printed(out') \cap (Announcements \cup {"\n" \o fmt(tiles') \o "\n"}) = {}
       /\ (pc = "read" /\ pc' = "read" /\ Last(out') # Last(out)) =>
            /\ call'.op = "turn"
            /\ call'.ret = "Ok"
            /\ Last(out) = next \o " > "
            /\ Last(out') = OtherPlayer(next) \o " > "]_vars

C10_Witness ==
    /\ pc = "read"
    /\ call.op = "turn"
    /\ call.ret = "CellOccupied"
    /\ next = "O"
    /\ Last(out) = "O > "

(***************************************************************************)
(* Further claims about the board engine                                   *)
(***************************************************************************)
\* C11: tiles are write-once: across any sequence of play() calls a tile
\* that has become X or O keeps that value in every later state.
C11_TilesWriteOnce ==
    [][\A i \in 0..8 : tiles[i] \in {"X", "O"} => tiles'[i] = tiles[i]]_vars

C11_Witness ==
    /\ call.op = "play"
    /\ plays >= 3
    /\ \E i \in 0..8 : tiles[i] = "X"
    /\ \E i \in 0..8 : tiles[i] = "O"

\* C12: new() yields a board whose 9 tiles are all Empty and whose next
\* player is X (new().next() == X).
C12_NewBoard ==
    /\ call.op = "new" =>
        /\ DOMAIN tiles = 0..8
        /\ \A i \in 0..8 : tiles[i] = "Empty"
        /\ next = "X"
    /\ (call.op = "next" /\ plays = 0) => call.ret = "X"

C12_Witness == call.op = "new" /\ pc = "run" /\ plays = 0

Queries == {"next", "won", "drawn", "iter_row", "iter_col", "iter_diag", "fmt"}

\* C13: play() is the only mutator: next(), won(), drawn(), iter_row,
\* iter_col, iter_diag and rendering leave all tiles and next unchanged, and
\* next (like the tiles) changes only as part of a successful play().
C13_OnlyPlayMutates ==
    [][/\ call'.op \in Queries => (tiles' = tiles /\ next' = next)
       /\ (next' # next \/ tiles' # tiles) =>
            (call'.op = "play" /\ call'.ret = "Ok")]_vars

C13_Witness ==
    /\ call.op \in Queries
    /\ plays >= 1
    /\ next = "O"

RenderedTile(v) == IF v = "X" THEN "X" ELSE IF v = "O" THEN "O" ELSE " "

RenderedRow(t, r) ==
    RenderedTile(t[3 * r]) \o "|" \o RenderedTile(t[3 * r + 1]) \o "|"
        \o RenderedTile(t[3 * r + 2])

\* C14: rendering produces exactly 5 lines: the three grid rows top to
\* bottom, each its three tile characters separated by '|', with the line
\* "-+-+-" between adjacent rows, nothing before the first row and nothing
\* (no newline either) after the last.
C14_RenderingFiveLines ==
    call.op = "fmt" =>
        call.ret = RenderedRow(tiles, 0) \o "\n" \o "-+-+-" \o "\n"
                   \o RenderedRow(tiles, 1) \o "\n" \o "-+-+-" \o "\n"
                   \o RenderedRow(tiles, 2)

C14_Witness ==
    /\ call.op = "fmt"
    /\ tiles = [i \in 0..8 |-> IF i = 4 THEN "X" ELSE "Empty"]
    /\ call.ret = " | | \n-+-+-\n |X| \n-+-+-\n | | "

\* C15: opponent(X) = O, opponent(O) = X, and opponent(opponent(p)) = p for
\* both players (a total involution without fixed points).
C15_OpponentInvolution ==
    call.op = "opponent" =>
        /\ call.ret \in {"X", "O"}
        /\ call.ret # call.arg
        /\ call.arg = "X" => call.ret = "O"
        /\ call.arg = "O" => call.ret = "X"
        /\ call.twice = call.arg

C15_Witness == call.op = "opponent" /\ call.arg = "O" /\ call.ret = "X"

AllEmptyLine(t, k) == \A j \in 1..3 : t[Lines8[k][j]] = "Empty"

FreshBoard == [i \in 0..8 |-> "Empty"]

\* C16 as stated: won() returns None on the freshly constructed board, and
\* on any board where an all-Empty line precedes (in scan order) a line of
\* three equal marks, won() returns the owner of that later line.
C16_LaterLineOwnerWins ==
    call.op = "won" =>
        /\ tiles = FreshBoard => call.ret = None
        /\ \A e \in 1..8, m \in 1..8 :
            (e < m /\ AllEmptyLine(tiles, e) /\ LineWon(tiles, m))
                => LineOwnedBy(tiles, m, call.ret)

\* C16 as amended: won() returns None on the freshly constructed board, and
\* on any board where an all-Empty line precedes a line of three equal
\* marks, won() returns the owner of the first line of three equal marks in
\* scan order; that is the later line's owner whenever no line of the other
\* player's marks comes before it.
C16_EmptyLineDoesNotStopScan ==
    call.op = "won" =>
        /\ tiles = FreshBoard => call.ret = None
        /\ \A e \in 1..8, m \in 1..8 :
            (e < m /\ AllEmptyLine(tiles, e) /\ LineWon(tiles, m)) =>
                /\ call.ret \in {"X", "O"}
                /\ \E k \in 1..m :
                    /\ LineOwnedBy(tiles, k, call.ret)
                    /\ \A h \in 1..(k - 1) : ~LineWon(tiles, h)
                /\ \A p \in {"X", "O"} :
                    (/\ LineOwnedBy(tiles, m, p)
                     /\ \A h \in 1..(m - 1) :
                            ~LineOwnedBy(tiles, h, OtherPlayer(p)))
                        => call.ret = p

C16_Witness ==
    /\ call.op = "won"
    /\ AllEmptyLine(tiles, 1)
    /\ LineOwnedBy(tiles, 3, "O")
    /\ call.ret = "O"

(***************************************************************************)
(* Claims about whole games                                                *)
(***************************************************************************)
\* C17: in every state the game loop reaches at most one player owns a won
\* line, and when the loop announces a winner p, p made the last accepted
\* move (p is the opponent of next) and the other player has no won line.
C17_SingleWinner ==
    /\ Cardinality(Owners(tiles)) <= 1
    /\ \A p \in {"X", "O"} :
        (pc = "done" /\ Last(out) = p \o " wins!") =>
            /\ p = OtherPlayer(next)
            /\ Owners(tiles) = {p}

C17_Witness ==
    /\ pc = "done"
    /\ Last(out) = "O wins!"
    /\ next = "X"
    /\ Owners(tiles) = {"O"}

CountOf(t, v) == Cardinality({i \in 0..8 : t[i] = v})

\* C18: in every state reachable from new() by play() calls, the number of X
\* tiles minus the number of O tiles is 0 or 1, next == X iff the counts are
\* equal (next == O iff X has one more), and the number of non-Empty tiles
\* equals the number of successful play() calls.
C18_MarkCounts ==
    /\ CountOf(tiles, "X") - CountOf(tiles, "O") \in {0, 1}
    /\ (next = "X") <=> (CountOf(tiles, "X") = CountOf(tiles, "O"))
    /\ (next = "O") <=> (CountOf(tiles, "X") = CountOf(tiles, "O") + 1)
    /\ CountOf(tiles, "X") + CountOf(tiles, "O") = plays

C18_Witness ==
    /\ call.op = "play"
    /\ call.ret = "Ok"
    /\ plays = 9
    /\ CountOf(tiles, "X") = 5
    /\ next = "O"

\* C19: every game ends: the loop accepts at most 9 moves, never prompts on
\* a full board, and, with players who eventually enter an accepted move
\* whenever one exists, eventually announces a win or a draw and stops.
C19_EveryGameEnds ==
    /\ [](plays <= 9 /\ (pc = "read" => ~Full(tiles)))
    /\ <>(pc = "done" /\ Last(out) \in Announcements)

====
